---- MODULE Spec2Model ----
(***************************************************************************)
(* Model of the tile acquisition pipeline of maptile_cacher:               *)
(*   handlers/tile.rs   get_tile, fetch_with_coalescing, make_response     *)
(*   cache/coalescing.rs RequestCoalescer, CoalesceGuard                    *)
(*   cache/disk.rs      DiskCache (payload file, temp file, ETag sidecar)  *)
(*   cache/memory.rs    MemoryCache                                        *)
(*   upstream/osm.rs    OsmFetcher::fetch (its result is an input)         *)
(*                                                                         *)
(* All state is that of ONE tile key k: the DashMap slot of k, the moka    *)
(* entry of k and the three files <y>.png, <y>.tmp, <y>.etag of k.  The    *)
(* requests are tasks of the multi-threaded tokio runtime, so two tasks    *)
(* interleave at every access to shared state (registry, Notify, memory    *)
(* cache, file system), not only at await points.                          *)
(*                                                                         *)
(* The pure parts of a request (coordinate validation, the response built  *)
(* for a tile, the status code of an error) are checked over sets of       *)
(* inputs under CoordSpec, RespSpec and ErrSpec.                           *)
(***************************************************************************)
EXTENDS Integers, Sequences, FiniteSets, TLC

\* Number of concurrent tasks (requests in Spec, disk clients in DiskSpec).
NumReq == 2

Req == 1..NumReq

\* ---------------------------------------------------------------- values
\* Option<String>::None of an ETag, and the absence of the sidecar file.
NoETag == "<absent>"
\* Content of a sidecar that fs::write created or truncated but did not fill.
EmptyETag == ""
ETags == {"v1", "v2"}
OptETags == ETags \cup {NoETag}

\* Payloads are byte sequences written in two write() calls of one byte each in
\* this model; 0 is the byte the file system puts where a hole is written over.
B1 == <<1, 1>>
B2 == <<2, 2>>
Bodies == {B1, B2}

\* No DashMap entry for k / the Arc<Notify> of the entry is named after the
\* request whose try_acquire inserted it.
NoSig == 0
\* No file under that name / the inode that was on disk at start-up.
NoIno == -1
InitIno == 0
Inodes == {InitIno} \cup Req

NoTile == [kind |-> "none"]
Tile(d, e) == [kind |-> "tile", data |-> d, etag |-> e]

NoRes == [kind |-> "none"]
Data(d, e) == [kind |-> "Data", data |-> d, etag |-> e]
NotModified == [kind |-> "NotModified"]
Err(e) == [kind |-> "Err", err |-> e]
Cancelled == [kind |-> "Cancelled"]

\* error.rs AppError values a fetch can end with.
NotFound == [type |-> "NotFound"]
UpstreamStatus(code) == [type |-> "UpstreamStatus", code |-> code]
Upstream == [type |-> "Upstream"]
Io == [type |-> "Io"]
InvalidCoordinates == [type |-> "InvalidCoordinates"]
FetchErrors == {NotFound, UpstreamStatus(500), Upstream}

\* What upstream can answer to one fetch call.
UpstreamTiles == {Data(B1, "v1"), Data(B2, "v2"), Data(B2, NoETag)}
FetchResults == UpstreamTiles \cup {NotModified} \cup {Err(e) : e \in FetchErrors}

NoRet == [kind |-> "none"]
Ok(t) == [kind |-> "Ok", data |-> t.data, etag |-> t.etag]

NoCall == [kind |-> "none"]
NoOp == [kind |-> "none"]
NoGot == [kind |-> "none"]

VARIABLES
    pc,         \* pc[r]: where task r stands in its code
    in_flight,  \* RequestCoalescer.in_flight at key k: NoSig or the signal stored
    sig,        \* sig[r]: the Arc<Notify> that try_acquire handed to r in Wait(..)
    rm,         \* rm[r]: what the last in_flight.remove(&key) of r's guard returned
    mem,        \* MemoryCache entry of k
    png,        \* inode named <y>.png, or NoIno
    tmp,        \* inode named <y>.tmp, or NoIno
    ino,        \* ino[i]: bytes of inode i
    sidecar,    \* content of <y>.etag, NoETag when the file does not exist
    fd,         \* fd[r]: inode behind the File that r's store created
    off,        \* off[r]: write offset of that File
    st,         \* st[r]: arguments (data, etag) of r's DiskCache::store call
    stres,      \* stres[r]: "ok"/"err" result of r's store, "none" before
    res,        \* res[r]: result of r's last OsmFetcher::fetch
    ret,        \* ret[r]: what get_tile's pipeline returned for r
    sent,       \* sent[r]: If-None-Match value of r's first fetch
    fetches,    \* fetches[r]: number of fetch calls r has issued
    hitDisk,    \* hitDisk[r]: r's lookup in get_tile found the payload on disk
    clean,      \* history: cold start, every request arrived before any fetch was
                \* answered, upstream always answered Data(B1,"v1"), no injected
                \* I/O error, no eviction, no cancellation
    got,        \* got[p]: result of p's last bare DiskCache::get (DiskSpec)
    want,       \* history: arguments of the store that just returned Ok having
                \* run alone, NoOp once another store has been called
    solo,       \* history: the store in progress has overlapped no other store
    via,        \* via[r]: the lookup or match arm that decided r's return
    tries,      \* tries[r]: number of try_acquire calls r has made
    acq,        \* acq[r]: number of those that returned Acquired
    ins,        \* ins[r]: the tile r last inserted into the memory cache
    sentFb,     \* sentFb[r]: If-None-Match value of r's fallback fetch
    call        \* the call of a pure function under check: arguments and result

vars == <<pc, in_flight, sig, rm, mem, png, tmp, ino, sidecar, fd, off, st, stres,
          res, ret, sent, fetches, hitDisk, clean, got, want, solo,
          via, tries, acq, ins, sentFb, call>>

coVars == <<in_flight, sig, rm>>
diskVars == <<png, tmp, ino, sidecar>>
fileVars == <<fd, off, st, stres>>
reqVars == <<res, ret, sent, fetches, hitDisk>>
histVars == <<got, want, solo>>
pathVars == <<via, tries, acq, ins, sentFb>>

\* ------------------------------------------------------------ pure parts

make_response_optionsEqual(data, etag, client_etag) ==
    IF etag = client_etag
    THEN [status |-> 304, body |-> <<>>, etag |-> NoETag, content_type |-> NoETag]
    ELSE [status |-> 200, body |-> data, etag |-> etag, content_type |-> "image/png"]
\* handlers/tile.rs make_response.
make_response(data, etag, client_etag) ==
    IF etag # NoETag /\ client_etag # NoETag /\ etag = client_etag
    THEN [status |-> 304, body |-> <<>>, etag |-> NoETag, content_type |-> NoETag]
    ELSE [status |-> 200, body |-> data, etag |-> etag, content_type |-> "image/png"]

into_response_badGateway(e) ==
    IF e.type = "NotFound" THEN 404
    ELSE IF e.type = "InvalidCoordinates" THEN 400
    ELSE 502
\* error.rs AppError::into_response: the status code (StatusCode::from_u16 accepts
\* 100..999).
into_response(e) ==
    IF e.type = "NotFound" THEN 404
    ELSE IF e.type = "InvalidCoordinates" THEN 400
    ELSE IF e.type = "UpstreamStatus"
         THEN (IF e.code >= 100 /\ e.code <= 999 THEN e.code ELSE 502)
    ELSE 502

\* DiskCache::get (disk.rs 35-47): open and map <y>.png, copy the mapping, then
\* read <y>.etag if it is there; taken as one step.  Whether Mmap::map of an
\* empty file succeeds depends on the memmap2 version, so an empty payload file
\* reads as a miss or as an empty payload.
DiskGet ==
    IF png = NoIno THEN {NoTile}
    ELSE IF ino[png] = <<>> THEN {NoTile, Tile(<<>>, sidecar)}
    ELSE {Tile(ino[png], sidecar)}

\* DiskCache::get_etag (disk.rs 77-79).
get_etag == sidecar

\* One write() of byte b at offset o into content c (a write past the end leaves
\* a hole of zero bytes).
WriteAt(c, o, b) ==
    [i \in 1..(IF Len(c) > o + 1 THEN Len(c) ELSE o + 1) |->
        IF i = o + 1 THEN b ELSE IF i <= Len(c) THEN c[i] ELSE 0]

\* Notify::notify_waiters on signal s: every task parked on s becomes runnable
\* and goes on to re-check the caches; nothing is stored for later waiters.
notify_waiters(pcs, s) ==
    [q \in Req |-> IF pcs[q] = "parked" /\ sig[q] = s THEN "w_mem" ELSE pcs[q]]

\* in_flight.remove(&key) as called by CoalesceGuard::complete.
CompleteRemoved(reg) == NoSig

DropRemoved_leak(reg) == reg
\* in_flight.remove(&key) as called by Drop for CoalesceGuard.
DropRemoved(reg) == NoSig


\* ------------------------------------------------------------------ Init

\* Local state of the tasks before any of them has run.
InitTasks ==
    /\ pc = [r \in Req |-> "idle"]
    /\ in_flight = NoSig
    /\ sig = [r \in Req |-> NoSig]
    /\ rm = [r \in Req |-> NoSig]
    /\ mem = NoTile
    /\ tmp = NoIno
    /\ fd = [r \in Req |-> NoIno]
    /\ off = [r \in Req |-> 0]
    /\ st = [r \in Req |-> NoCall]
    /\ stres = [r \in Req |-> "none"]
    /\ res = [r \in Req |-> NoRes]
    /\ ret = [r \in Req |-> NoRet]
    /\ sent = [r \in Req |-> NoETag]
    /\ fetches = [r \in Req |-> 0]
    /\ hitDisk = [r \in Req |-> FALSE]
    /\ got = [r \in Req |-> NoGot]
    /\ want = NoOp
    /\ solo = FALSE
    /\ via = [r \in Req |-> "none"]
    /\ tries = [r \in Req |-> 0]
    /\ acq = [r \in Req |-> 0]
    /\ ins = [r \in Req |-> NoTile]
    /\ sentFb = [r \in Req |-> NoETag]
    /\ call = NoCall

\* main.rs: the process starts with an empty memory cache and registry; the cache
\* directory is empty or holds what an earlier run stored for k: the payload B1
\* with the sidecar "v1", or the payload B1 alone.
Init ==
    /\ InitTasks
    /\ \E d \in {"empty", "payload", "payload+etag"} :
        /\ png = IF d = "empty" THEN NoIno ELSE InitIno
        /\ ino = [i \in Inodes |-> IF i = InitIno /\ d # "empty" THEN B1 ELSE <<>>]
        /\ sidecar = IF d = "payload+etag" THEN "v1" ELSE NoETag
        /\ clean = (d = "empty")

\* -------------------------------------------------- get_tile, first lookup

Finished(r) == pc[r] \in {"done", "cancelled"}

\* tile.rs 20-43: a request for k arrives with valid coordinates and no
\* If-None-Match header.
Start(r) ==
    /\ pc[r] = "idle"
    /\ pc' = [pc EXCEPT ![r] = "mem_get"]
    /\ clean' = (clean /\ \A q \in Req : res[q] = NoRes /\ ~Finished(q))
    /\ UNCHANGED <<pathVars, call, coVars, mem, diskVars, fileVars, reqVars, histVars>>

\* tile.rs 46-49: memory_cache.get(&key).
MemGet(r) ==
    /\ pc[r] = "mem_get"
    /\ IF mem # NoTile
       THEN /\ ret' = [ret EXCEPT ![r] = Ok(mem)]
            /\ via' = [via EXCEPT ![r] = "mem"]
            /\ pc' = [pc EXCEPT ![r] = "done"]
       ELSE /\ ret' = ret
            /\ via' = via
            /\ pc' = [pc EXCEPT ![r] = "disk_get"]
    /\ UNCHANGED <<tries, acq, ins, sentFb, call, coVars, mem, diskVars, fileVars, res, sent, fetches, hitDisk,
                   clean, histVars>>

\* Where get_tile goes after disk_cache.get(&key): to the promotion on a hit,
\* to fetch_with_coalescing on a miss.
AfterDiskLookup_revalidate(t) == "try_acquire"
AfterDiskLookup(t) == IF t # NoTile THEN "promote" ELSE "try_acquire"

\* tile.rs 52-53: disk_cache.get(&key).
DiskLookup(r) ==
    /\ pc[r] = "disk_get"
    /\ \E t \in DiskGet :
        /\ pc' = [pc EXCEPT ![r] = AfterDiskLookup(t)]
        /\ ret' = [ret EXCEPT ![r] = IF t # NoTile THEN Ok(t) ELSE NoRet]
        /\ hitDisk' = [hitDisk EXCEPT ![r] = t # NoTile]
        /\ via' = [via EXCEPT ![r] = IF t # NoTile THEN "disk" ELSE @]
    /\ UNCHANGED <<tries, acq, ins, sentFb, call, coVars, mem, diskVars, fileVars, res, sent, fetches, clean,
                   histVars>>

InsertTileAndReturn_noInsert(r, at) ==
    /\ pc[r] = at
    /\ pc' = [pc EXCEPT ![r] = "done"]
    /\ UNCHANGED <<pathVars, call, coVars, mem, diskVars, fileVars, reqVars, clean,
                   histVars>>
\* memory_cache.insert_tile(key, tile) followed by the return of the tile.
InsertTileAndReturn(r, at) ==
    /\ pc[r] = at
    /\ mem' = Tile(ret[r].data, ret[r].etag)
    /\ ins' = [ins EXCEPT ![r] = mem']
    /\ pc' = [pc EXCEPT ![r] = "done"]
    /\ UNCHANGED <<via, tries, acq, sentFb, call, coVars, diskVars, fileVars, reqVars, clean, histVars>>

\* tile.rs 55-56.
Promote(r) == InsertTileAndReturn(r, "promote")

\* ------------------------------------------------- fetch_with_coalescing

\* coalescing.rs 21-36: try_acquire(key), one atomic DashMap entry operation.
TryAcquire(r) ==
    /\ pc[r] = "try_acquire"
    /\ tries' = [tries EXCEPT ![r] = @ + 1]
    /\ IF in_flight = NoSig
       THEN /\ in_flight' = r
            /\ sig' = sig
            /\ acq' = [acq EXCEPT ![r] = @ + 1]
            /\ pc' = [pc EXCEPT ![r] = "get_etag"]
       ELSE /\ in_flight' = in_flight
            /\ sig' = [sig EXCEPT ![r] = in_flight]
            /\ acq' = acq
            /\ pc' = [pc EXCEPT ![r] = "wait_create"]
    /\ UNCHANGED <<via, ins, sentFb, call, rm, mem, diskVars, fileVars, reqVars, clean, histVars>>

\* tile.rs 73-75: disk_cache.get_etag(&key), then the fetch call is issued with
\* that validator.
GetEtagAndFetch(r) ==
    /\ pc[r] = "get_etag"
    /\ sent' = [sent EXCEPT ![r] = get_etag]
    /\ fetches' = [fetches EXCEPT ![r] = @ + 1]
    /\ pc' = [pc EXCEPT ![r] = "fetching"]
    /\ UNCHANGED <<pathVars, call, coVars, mem, diskVars, fileVars, res, ret, hitDisk, clean,
                   histVars>>

AfterFetch_readBackFirst(result) ==
    IF result.kind = "NotModified" THEN "nm_disk_get" ELSE "c_remove"
\* tile.rs 75-78: whatever the first fetch returned, guard.complete() comes next.
AfterFetch(result) == "c_remove"

\* tile.rs 75: the fetch call returns `result` (osm.rs 59-77).
FetchReturn(r, result) ==
    /\ pc[r] = "fetching"
    /\ res' = [res EXCEPT ![r] = result]
    /\ pc' = [pc EXCEPT ![r] = AfterFetch(result)]
    /\ clean' = (clean /\ result = Data(B1, "v1"))
    /\ UNCHANGED <<pathVars, call, coVars, mem, diskVars, fileVars, ret, sent, fetches, hitDisk,
                   histVars>>

\* The task is dropped while it awaits the first fetch (client disconnect): the
\* guard is dropped without complete().
CancelFetch(r) ==
    /\ pc[r] = "fetching"
    /\ res' = [res EXCEPT ![r] = Cancelled]
    /\ pc' = [pc EXCEPT ![r] = "d_remove"]
    /\ clean' = FALSE
    /\ UNCHANGED <<pathVars, call, coVars, mem, diskVars, fileVars, ret, sent, fetches, hitDisk,
                   histVars>>

AfterRelease_retry(result) ==
    IF result.kind = "Data" THEN "st_create"
    ELSE IF result.kind = "NotModified" THEN "nm_disk_get"
    ELSE IF result.kind = "Cancelled" THEN "cancelled"
    ELSE "try_acquire"
\* tile.rs 80-116, `match result`: where the acquirer goes once its guard is
\* gone.
AfterRelease(result) ==
    IF result.kind = "Data" THEN "st_create"
    ELSE IF result.kind = "NotModified" THEN "nm_disk_get"
    ELSE IF result.kind = "Cancelled" THEN "cancelled"
    ELSE "done"

\* The part of the step that leaves the guard: pc, store arguments and the
\* returned error follow from the fetch result.
LeaveGuard(r, pcs) ==
    /\ pc' = [pcs EXCEPT ![r] = AfterRelease(res[r])]
    /\ st' = [st EXCEPT ![r] = IF res[r].kind = "Data"
                                THEN [data |-> res[r].data, etag |-> res[r].etag]
                                ELSE @]
    /\ ret' = [ret EXCEPT ![r] = IF res[r].kind = "Err" THEN res[r] ELSE @]
    /\ via' = [via EXCEPT ![r] = IF res[r].kind = "Data" THEN "data"
                                  ELSE IF res[r].kind = "Err" THEN "err" ELSE @]

\* coalescing.rs 51: complete() removes the entry of the key.
CompleteRemove(r) ==
    /\ pc[r] = "c_remove"
    /\ rm' = [rm EXCEPT ![r] = in_flight]
    /\ in_flight' = CompleteRemoved(in_flight)
    /\ pc' = [pc EXCEPT ![r] = IF in_flight # NoSig THEN "c_notify" ELSE "d_remove"]
    /\ UNCHANGED <<pathVars, call, sig, mem, diskVars, fileVars, reqVars, clean, histVars>>

\* coalescing.rs 52: notify.notify_waiters() on the removed signal; complete()
\* then ends and `self` goes out of scope.
CompleteNotify(r) ==
    /\ pc[r] = "c_notify"
    /\ pc' = [notify_waiters(pc, rm[r]) EXCEPT ![r] = "d_remove"]
    /\ UNCHANGED <<pathVars, call, coVars, mem, diskVars, fileVars, reqVars, clean, histVars>>

\* coalescing.rs 59: Drop for CoalesceGuard removes the entry of the key again.
DropRemove(r) ==
    /\ pc[r] = "d_remove"
    /\ rm' = [rm EXCEPT ![r] = in_flight]
    /\ in_flight' = DropRemoved(in_flight)
    /\ IF in_flight # NoSig
       THEN /\ pc' = [pc EXCEPT ![r] = "d_notify"]
            /\ UNCHANGED <<st, ret, via>>
       ELSE LeaveGuard(r, pc)
    /\ UNCHANGED <<tries, acq, ins, sentFb, call, sig, mem, diskVars, fd, off, stres, res, sent, fetches, hitDisk,
                   clean, histVars>>

\* coalescing.rs 60: notify_waiters() on what Drop removed.
DropNotify(r) ==
    /\ pc[r] = "d_notify"
    /\ LeaveGuard(r, notify_waiters(pc, rm[r]))
    /\ UNCHANGED <<tries, acq, ins, sentFb, call, coVars, mem, diskVars, fd, off, stres, res, sent, fetches,
                   hitDisk, clean, histVars>>

\* tile.rs 100: the validator passed to the fallback fetch, `None`.
FallbackValidator == NoETag

\* tile.rs 95 and 100: after NotModified, disk_cache.get(&key); when the payload
\* is absent the fallback fetch is issued without a validator.
NmDiskGet(r) ==
    /\ pc[r] = "nm_disk_get"
    /\ \E t \in DiskGet :
        IF t # NoTile
        THEN /\ ret' = [ret EXCEPT ![r] = Ok(t)]
             /\ via' = [via EXCEPT ![r] = "nm_disk"]
             /\ pc' = [pc EXCEPT ![r] = "nm_promote"]
             /\ UNCHANGED <<fetches, sentFb>>
        ELSE /\ ret' = ret
             /\ via' = via
             /\ pc' = [pc EXCEPT ![r] = "fb_fetching"]
             /\ sentFb' = [sentFb EXCEPT ![r] = FallbackValidator]
             /\ fetches' = [fetches EXCEPT ![r] = @ + 1]
    /\ UNCHANGED <<tries, acq, ins, call, coVars, mem, diskVars, fileVars, res, sent, hitDisk, clean,
                   histVars>>

\* tile.rs 96-97.
NmPromote(r) == InsertTileAndReturn(r, "nm_promote")

FallbackNotModified_upstream == Err(Upstream)
\* tile.rs 110-112: what the acquirer returns on a second NotModified.
FallbackNotModified == Err(NotFound)

AfterFallback_loop(result) ==
    IF result.kind = "Data" THEN "st_create"
    ELSE IF result.kind = "NotModified" THEN "try_acquire" ELSE "done"
\* tile.rs 100-113: where the acquirer goes when the fallback fetch has returned.
AfterFallback(result) == IF result.kind = "Data" THEN "st_create" ELSE "done"

\* tile.rs 100-113: the fallback fetch returns; `?` propagates its error, a
\* second NotModified becomes NotFound.
FallbackReturn(r, result) ==
    /\ pc[r] = "fb_fetching"
    /\ res' = [res EXCEPT ![r] = result]
    /\ pc' = [pc EXCEPT ![r] = AfterFallback(result)]
    /\ via' = [via EXCEPT ![r] = IF result.kind = "Data" THEN "fb_data"
                                  ELSE IF result.kind = "NotModified" THEN "fb_nm"
                                  ELSE "fb_err"]
    /\ st' = [st EXCEPT ![r] = IF result.kind = "Data"
                                THEN [data |-> result.data, etag |-> result.etag]
                                ELSE @]
    /\ ret' = [ret EXCEPT ![r] = IF result.kind = "Err" THEN result
                                  ELSE IF result.kind = "NotModified"
                                       THEN FallbackNotModified
                                  ELSE @]
    /\ clean' = (clean /\ result = Data(B1, "v1"))
    /\ UNCHANGED <<tries, acq, ins, sentFb, call, coVars, mem, diskVars, fd, off, stres, sent, fetches, hitDisk,
                   histVars>>

\* The task is dropped while it awaits the fallback fetch.
CancelFallback(r) ==
    /\ pc[r] = "fb_fetching"
    /\ pc' = [pc EXCEPT ![r] = "cancelled"]
    /\ clean' = FALSE
    /\ UNCHANGED <<pathVars, call, coVars, mem, diskVars, fileVars, reqVars, histVars>>

AfterStore_propagate(x, tile) == IF x = "err" THEN Err(Io) ELSE Ok(tile)
\* tile.rs 86-91 and 104-108: what the acquirer returns when store ended with
\* x; `if let Err(e) = ..store(..)` only logs.
AfterStore(x, tile) == Ok(tile)

\* tile.rs 86-91 and 104-108: store has returned (its error is only logged);
\* memory_cache.insert(key, data, etag) and return of the fetched tile.
InsertAndReturn(r) ==
    /\ pc[r] = "st_ret"
    /\ mem' = Tile(res[r].data, res[r].etag)
    /\ ins' = [ins EXCEPT ![r] = mem']
    /\ ret' = [ret EXCEPT ![r] = AfterStore(stres[r], res[r])]
    /\ pc' = [pc EXCEPT ![r] = "done"]
    /\ UNCHANGED <<via, tries, acq, sentFb, call, coVars, diskVars, fileVars, res, sent, fetches, hitDisk, clean,
                   histVars>>

\* tile.rs 120: notify.notified() creates the Notified future on the handle that
\* try_acquire returned; from here on notify_waiters reaches this task.
WaitRegister(r) ==
    /\ pc[r] = "wait_create"
    /\ pc' = [pc EXCEPT ![r] = "parked"]
    /\ UNCHANGED <<pathVars, call, coVars, mem, diskVars, fileVars, reqVars, clean, histVars>>

\* tile.rs 123-125: the woken waiter looks into the memory cache.
WaiterMemGet(r) ==
    /\ pc[r] = "w_mem"
    /\ IF mem # NoTile
       THEN /\ ret' = [ret EXCEPT ![r] = Ok(mem)]
            /\ via' = [via EXCEPT ![r] = "w_mem"]
            /\ pc' = [pc EXCEPT ![r] = "done"]
       ELSE /\ ret' = ret
            /\ via' = via
            /\ pc' = [pc EXCEPT ![r] = "w_disk"]
    /\ UNCHANGED <<tries, acq, ins, sentFb, call, coVars, mem, diskVars, fileVars, res, sent, fetches, hitDisk,
                   clean, histVars>>

\* tile.rs 126 and 131-132: the waiter looks on disk; on a miss it loops.
WaiterDiskGet(r) ==
    /\ pc[r] = "w_disk"
    /\ \E t \in DiskGet :
        /\ pc' = [pc EXCEPT ![r] = IF t # NoTile THEN "w_promote" ELSE "try_acquire"]
        /\ ret' = [ret EXCEPT ![r] = IF t # NoTile THEN Ok(t) ELSE NoRet]
        /\ via' = [via EXCEPT ![r] = IF t # NoTile THEN "w_disk" ELSE @]
    /\ UNCHANGED <<tries, acq, ins, sentFb, call, coVars, mem, diskVars, fileVars, res, sent, fetches, hitDisk,
                   clean, histVars>>

\* tile.rs 127-128.
WaiterPromote(r) == InsertTileAndReturn(r, "w_promote")

\* memory.rs 13-19: the moka cache drops the entry of k (it is bounded by
\* weight and evicts by its own policy).
Evict ==
    /\ mem # NoTile
    /\ mem' = NoTile
    /\ clean' = FALSE
    /\ UNCHANGED <<pathVars, call, pc, coVars, diskVars, fileVars, reqVars, histVars>>


\* ------------------------------------------------------- DiskCache::store

InStore(q) == pc[q] \in {"st_create", "st_write", "st_rename", "st_etag", "st_ret"}

\* The store call of r ends with result x.
StoreEnds(r, x) ==
    /\ pc' = [pc EXCEPT ![r] = "st_ret"]
    /\ stres' = [stres EXCEPT ![r] = x]

\* disk.rs 54-61: create_dir_all(parent) and File::create(<y>.tmp).  Creating
\* over an existing <y>.tmp truncates that same inode; either call can fail, and
\* `?` then returns the error with the disk untouched.
StoreCreate(r) ==
    /\ pc[r] = "st_create"
    /\ \E ok \in BOOLEAN :
        IF ok
        THEN /\ tmp' = IF tmp = NoIno THEN r ELSE tmp
             /\ fd' = [fd EXCEPT ![r] = tmp']
             /\ ino' = [ino EXCEPT ![tmp'] = <<>>]
             /\ off' = [off EXCEPT ![r] = 0]
             /\ pc' = [pc EXCEPT ![r] = "st_write"]
             /\ UNCHANGED <<stres, clean>>
        ELSE /\ StoreEnds(r, "err")
             /\ clean' = FALSE
             /\ UNCHANGED <<tmp, fd, ino, off>>
    /\ UNCHANGED <<pathVars, call, coVars, mem, png, sidecar, st, reqVars, histVars>>

\* disk.rs 62: file.write_all(data), one write() per step at the File's offset;
\* on an error `?` returns and the File is closed.
StoreWrite(r) ==
    /\ pc[r] = "st_write"
    /\ \E ok \in BOOLEAN :
        IF ok
        THEN /\ ino' = [ino EXCEPT ![fd[r]] = WriteAt(@, off[r], st[r].data[off[r] + 1])]
             /\ off' = [off EXCEPT ![r] = @ + 1]
             /\ pc' = [pc EXCEPT ![r] = IF off[r] + 1 = Len(st[r].data)
                                        THEN "st_rename" ELSE "st_write"]
             /\ UNCHANGED <<fd, stres, clean>>
        ELSE /\ StoreEnds(r, "err")
             /\ fd' = [fd EXCEPT ![r] = NoIno]
             /\ off' = [off EXCEPT ![r] = 0]
             /\ clean' = FALSE
             /\ UNCHANGED ino
    /\ UNCHANGED <<pathVars, call, coVars, mem, png, tmp, sidecar, st, reqVars, histVars>>

\* disk.rs 65-71: after fs::rename(..)? : the sidecar is written when the rename
\* succeeded and an ETag was given.
AfterRename_ignoreError(ok, etag) ==
    IF etag # NoETag THEN "st_etag" ELSE "st_ret"
AfterRename(ok, etag) ==
    IF ~ok THEN "st_ret" ELSE IF etag # NoETag THEN "st_etag" ELSE "st_ret"

\* disk.rs 63-65: file.sync_all(), the File is closed, fs::rename(<y>.tmp,
\* <y>.png).  sync_all touches nothing of this model, so its failure is the ~ok
\* case here; the rename also fails when <y>.tmp is gone (another store of k
\* has renamed it away).
StoreRename(r) ==
    /\ pc[r] = "st_rename"
    /\ \E ok \in BOOLEAN :
        LET done == ok /\ tmp # NoIno IN
        /\ png' = IF done THEN tmp ELSE png
        /\ tmp' = IF done THEN NoIno ELSE tmp
        /\ pc' = [pc EXCEPT ![r] = AfterRename(done, st[r].etag)]
        /\ stres' = [stres EXCEPT ![r] =
                        IF ~done THEN "err"
                        ELSE IF st[r].etag = NoETag THEN "ok" ELSE @]
        /\ fd' = [fd EXCEPT ![r] = NoIno]
        /\ off' = [off EXCEPT ![r] = 0]
        /\ clean' = (clean /\ ok)
    /\ UNCHANGED <<pathVars, call, coVars, mem, ino, sidecar, st, reqVars, histVars>>

\* disk.rs 68-71: fs::write(<y>.etag, etag).  A failure leaves the sidecar as
\* it was, or created/truncated and empty.
StoreEtag(r) ==
    /\ pc[r] = "st_etag"
    /\ \E how \in {"ok", "untouched", "truncated"} :
        /\ sidecar' = IF how = "ok" THEN st[r].etag
                      ELSE IF how = "truncated" THEN EmptyETag ELSE sidecar
        /\ StoreEnds(r, IF how = "ok" THEN "ok" ELSE "err")
        /\ clean' = (clean /\ how = "ok")
    /\ UNCHANGED <<pathVars, call, coVars, mem, png, tmp, ino, fd, off, st, reqVars, histVars>>

\* --------------------------------------- bare clients of the disk cache

\* A task calls store(k, b, e) (disk.rs 50).
CallStore(p, b, e) ==
    /\ pc[p] = "idle"
    /\ st' = [st EXCEPT ![p] = [data |-> b, etag |-> e]]
    /\ pc' = [pc EXCEPT ![p] = "st_create"]
    /\ solo' = ~\E q \in Req : InStore(q)
    /\ want' = NoOp
    /\ UNCHANGED <<pathVars, call, coVars, mem, diskVars, fd, off, stres, reqVars, clean, got>>

\* The store call returns to its caller (disk.rs 73, or an earlier `?`).
StoreFinish(p) ==
    /\ pc[p] = "st_ret"
    /\ pc' = [pc EXCEPT ![p] = "stored"]
    /\ want' = IF stres[p] = "ok" /\ solo THEN Tile(st[p].data, st[p].etag) ELSE NoOp
    /\ UNCHANGED <<pathVars, call, coVars, mem, diskVars, fileVars, reqVars, clean, got, solo>>

\* A task calls get(k) (disk.rs 35-47) while it is in no store call.
CallGet(p) ==
    /\ pc[p] \in {"idle", "stored"}
    /\ \E t \in DiskGet :
        got' = [got EXCEPT ![p] = [kind |-> "got", tile |-> t, after |-> want]]
    /\ UNCHANGED <<pathVars, call, pc, coVars, mem, diskVars, fileVars, reqVars, clean, want, solo>>

\* ------------------------------------------------------- specifications

Step(r) ==
    \/ MemGet(r) \/ DiskLookup(r) \/ Promote(r)
    \/ TryAcquire(r) \/ GetEtagAndFetch(r)
    \/ \E result \in FetchResults : FetchReturn(r, result)
    \/ CompleteRemove(r) \/ CompleteNotify(r) \/ DropRemove(r) \/ DropNotify(r)
    \/ NmDiskGet(r) \/ NmPromote(r)
    \/ \E result \in FetchResults : FallbackReturn(r, result)
    \/ StoreCreate(r) \/ StoreWrite(r) \/ StoreRename(r) \/ StoreEtag(r)
    \/ InsertAndReturn(r)
    \/ WaitRegister(r) \/ WaiterMemGet(r) \/ WaiterDiskGet(r) \/ WaiterPromote(r)

Next ==
    \/ \E r \in Req : Start(r) \/ Step(r) \/ CancelFetch(r) \/ CancelFallback(r)
    \/ Evict

\* The requests of the server: every interleaving of NumReq get_tile calls for k.
Spec == Init /\ [][Next]_vars

\* The tokio scheduler runs every runnable task again, and upstream answers
\* every fetch (osm.rs 19: the client has a request timeout).  Cancellation,
\* eviction and new requests may or may not happen.
FairSpec == Spec /\ \A r \in Req : WF_vars(Step(r))

\* The disk cache alone: NumReq tasks, each calling store(k, b, e) at most once
\* with any payload and ETag, and get(k) any number of times, in any interleaving.
DiskInit ==
    /\ InitTasks
    /\ png = NoIno
    /\ ino = [i \in Inodes |-> <<>>]
    /\ sidecar = NoETag
    /\ clean = TRUE

DiskNext ==
    \E p \in Req :
        \/ \E b \in Bodies, e \in OptETags : CallStore(p, b, e)
        \/ StoreCreate(p) \/ StoreWrite(p) \/ StoreRename(p) \/ StoreEtag(p)
        \/ StoreFinish(p)
        \/ CallGet(p)

DiskSpec == DiskInit /\ [][DiskNext]_vars


\* ----------------------------------------------------------- observables

\* The HTTP response of a finished request (tile.rs 62 and error.rs 23-37); the
\* requests of Spec carry no If-None-Match header.
Response(r) ==
    IF ret[r].kind = "Ok"
    THEN make_response(ret[r].data, ret[r].etag, NoETag)
    ELSE [status |-> into_response(ret[r].err), body |-> <<>>, etag |-> NoETag,
          content_type |-> NoETag]

\* An OsmFetcher::fetch call of r is in progress.
Fetching(r) == pc[r] \in {"fetching", "fb_fetching"}

\* r holds a CoalesceGuard that has not begun to be released.
HoldsGuard(r) ==
    \/ pc[r] \in {"get_etag", "fetching", "c_remove"}
    \/ pc[r] = "d_remove" /\ res[r] = Cancelled

\* r holds the handle of Wait(signal) and has not resumed.
Waiting(r) == pc[r] \in {"wait_create", "parked"}

RECURSIVE SumOver(_, _)
SumOver(f, S) ==
    IF S = {} THEN 0
    ELSE LET x == CHOOSE y \in S : TRUE IN f[x] + SumOver(f, S \ {x})

\* Number of upstream fetch calls made so far.
TotalFetches == SumOver(fetches, Req)

\* ---------------------------------------------------------------- claims

\* C1 (as stated): at no instant are two upstream fetch calls for k in progress.
C1_AtMostOneFetchInProgress ==
    Cardinality({r \in Req : Fetching(r)}) <= 1

\* C2 (as stated): a guard's remove (in complete() or in Drop) only ever removes
\* the entry its own try_acquire created, and while a request holds its guard
\* the registry holds that request's entry (so every other try_acquire waits).
C2_GuardRemovesOnlyOwnEntry ==
    \A r \in Req :
        /\ rm[r] \in {NoSig, r}
        /\ HoldsGuard(r) => in_flight = r

\* C3 (as stated): every request that received Wait(signal) eventually resumes.
C3_WaiterEventuallyResumes ==
    \A r \in Req : (pc[r] = "wait_create") ~> ~Waiting(r)

\* C4 (as stated): when all requests arrive on empty caches before any fetch is
\* answered and upstream answers every fetch with Data(B1, "v1") (no I/O error,
\* eviction or cancellation), then once all have returned exactly one fetch was
\* made and every response is 200 with body B1.
C4_OneFetchServesAll ==
    (clean /\ \A r \in Req : pc[r] = "done") =>
        /\ TotalFetches = 1
        /\ \A r \in Req : Response(r).status = 200 /\ Response(r).body = B1

\* C5: whenever no request is in progress the in-flight registry has no entry.
C5_RegistryEmptyWhenQuiescent ==
    (\A r \in Req : pc[r] \in {"idle", "done", "cancelled"}) => in_flight = NoSig

\* C5 witness: all requests are over, one was cancelled while awaiting its
\* first fetch and another one fetched and returned.
C5_Witness ==
    /\ \A r \in Req : Finished(r)
    /\ \E r \in Req : pc[r] = "cancelled" /\ res[r] = Cancelled
    /\ \E r \in Req : pc[r] = "done" /\ fetches[r] > 0

\* C6 (as stated): a waiter on the signal of an acquirer whose fetch failed
\* wakes, retries and gets an answer of its own.
C6_WaiterOfFailedAcquirerIsServed ==
    \A r \in Req :
        (Waiting(r) /\ res[sig[r]].kind = "Err") ~> Finished(r)

\* C7 (as stated): a request that finds payload and ETag e on disk (memory
\* missing) makes an upstream fetch carrying If-None-Match: e.
C7_DiskHitRevalidates ==
    \A r \in Req :
        (pc[r] = "done" /\ hitDisk[r] /\ ret[r].etag # NoETag) =>
            fetches[r] >= 1 /\ sent[r] = ret[r].etag

\* C7 (amended): a request whose lookup misses memory and finds the payload on
\* disk makes no upstream fetch and sends no validator; it is answered 200 with
\* the payload and ETag read from disk (B1 and the stored sidecar as long as the
\* file of the earlier run is in place).
C7_DiskHitServedWithoutFetch ==
    \A r \in Req :
        (pc[r] = "done" /\ hitDisk[r]) =>
            /\ fetches[r] = 0
            /\ sent[r] = NoETag
            /\ Response(r).status = 200
            /\ png = InitIno => Response(r) = make_response(B1, sidecar, NoETag)

\* C7 witness: payload B1 with sidecar "v1" on disk, a request served 200/B1.
C7_Witness ==
    \E r \in Req :
        /\ pc[r] = "done" /\ hitDisk[r]
        /\ png = InitIno /\ sidecar = "v1"
        /\ Response(r).status = 200 /\ Response(r).body = B1
        /\ Response(r).etag = "v1"

\* C8 (as stated): get(k) right after a successful store(k, b, e) that ran with
\* no other operation returns exactly (b, e).
C8_StoreGetRoundTrip ==
    \A p \in Req :
        (got[p].kind = "got" /\ got[p].after # NoOp) => got[p].tile = got[p].after

\* C9 (as stated): every payload that get(k) returns is the complete byte
\* sequence passed to some store(k, ..) call (stated for the non-empty reads,
\* which do not depend on how an empty file is mapped).
C9_GetReturnsAStoredPayload ==
    \A p \in Req :
        (got[p].kind = "got" /\ got[p].tile # NoTile /\ got[p].tile.data # <<>>) =>
            \E q \in Req : st[q] # NoCall /\ got[p].tile.data = st[q].data

\* C10: if the ETag sidecar of k exists then the payload file of k exists.
C10_SidecarImpliesPayload ==
    sidecar # NoETag => png # NoIno

\* C10 witness: the sidecar exists (with the payload) after two store calls for
\* k, one of which failed.
C10_Witness ==
    /\ sidecar # NoETag /\ png # NoIno
    /\ \E p, q \in Req : /\ pc[p] = "stored" /\ stres[p] = "err"
                         /\ pc[q] = "stored" /\ stres[q] = "ok"

\* C11: a request whose lookup found k in the memory cache, or missed memory and
\* found k on disk, returns a tile without calling try_acquire (again, for a woken
\* waiter) and without any upstream fetch of its own; on a disk hit it has inserted
\* the tile it returns into the memory cache, on a memory hit it inserts nothing.
C11_CacheHitReturnsWithoutAcquire ==
    \A r \in Req :
        /\ via[r] \in {"mem", "disk"} =>
            /\ pc[r] \in {"promote", "done"}
            /\ tries[r] = 0 /\ fetches[r] = 0
        /\ via[r] \in {"w_mem", "w_disk"} =>
            /\ pc[r] \in {"w_promote", "done"}
            /\ acq[r] = 0 /\ fetches[r] = 0
        /\ (via[r] \in {"mem", "disk", "w_mem", "w_disk"} /\ pc[r] = "done") =>
            /\ ret[r].kind = "Ok"
            /\ Response(r).status = 200
            /\ via[r] \in {"disk", "w_disk"} => ins[r] = Tile(ret[r].data, ret[r].etag)
            /\ via[r] \in {"mem", "w_mem"} => ins[r] = NoTile

\* C11 witness: a woken waiter found on disk the tile its acquirer had stored,
\* promoted it and returned it.
C11_Witness ==
    \E r, q \in Req :
        /\ pc[r] = "done" /\ via[r] = "w_disk" /\ sig[r] = q /\ via[q] = "data"
        /\ ins[r] = Tile(res[q].data, res[q].etag)
        /\ Response(r).body = res[q].data

\* C12: when a fetch (first or fallback) returned Data(tile) and DiskCache::store
\* then failed, the acquirer still inserts the tile into the memory cache and
\* returns it: the response is 200 with the fetched body; no request ever returns
\* an Io error.
C12_StoreFailureStillServesTile ==
    \A r \in Req :
        /\ ret[r].kind = "Err" => ret[r].err \in FetchErrors
        /\ (pc[r] = "done" /\ via[r] \in {"data", "fb_data"} /\ stres[r] = "err") =>
            /\ ret[r] = Ok(res[r])
            /\ ins[r] = Tile(res[r].data, res[r].etag)
            /\ Response(r).status = 200
            /\ Response(r).body = res[r].data
            /\ Response(r).etag = res[r].etag

\* C12 witness: one request returned the tile of its first fetch and another the
\* tile of its fallback fetch, each after its store had failed.
C12_Witness ==
    \E r, q \in Req :
        /\ pc[r] = "done" /\ via[r] = "data" /\ stres[r] = "err"
        /\ pc[q] = "done" /\ via[q] = "fb_data" /\ stres[q] = "err"
        /\ Response(r).status = 200 /\ Response(q).status = 200

\* ------------------------------------- get_tile: coordinate validation

\* A u32 is the pair <<hi, lo>> of its 16-bit halves (x = hi * 2^16 + lo).
Half == 65536
U32(hi, lo) == <<hi, lo>>
Lt(a, b) == a[1] < b[1] \/ (a[1] = b[1] /\ a[2] < b[2])

RECURSIVE Pow2(_)
Pow2(n) == IF n = 0 THEN 1 ELSE 2 * Pow2(n - 1)

\* Width of the u32 shifted at tile.rs 35.
ShiftWidth == 32

\* 1u32 << s for a shift amount s below the width.
Shl1(s) == IF s < 16 THEN U32(0, Pow2(s)) ELSE U32(Pow2(s - 16), 0)

\* tile.rs 35: `1u32 << z` with z: u8.  A shift amount of 32 or more panics in a
\* build with overflow checks and is masked to z % 32 in a build without.
max_coord(z) ==
    IF z < ShiftWidth THEN {[kind |-> "ok", v |-> Shl1(z)]}
    ELSE {[kind |-> "panic"], [kind |-> "ok", v |-> Shl1(z % ShiftWidth)]}

\* Strings are sequences of one-character strings.
Digits == <<"0", "1", "2", "3", "4", "5", "6", "7", "8", "9">>
IsDigit(c) == \E d \in 1..10 : Digits[d] = c
DigitVal(c) == (CHOOSE d \in 1..10 : Digits[d] = c) - 1
PngSuffix == <<".", "p", "n", "g">>

NoStr == [ok |-> FALSE]
SomeStr(s) == [ok |-> TRUE, s |-> s]
ParseErr == [ok |-> FALSE]
Parsed(v) == [ok |-> TRUE, v |-> v]

\* str::strip_suffix.
strip_suffix(s, suf) ==
    IF Len(s) >= Len(suf) /\ SubSeq(s, Len(s) - Len(suf) + 1, Len(s)) = suf
    THEN SomeStr(SubSeq(s, 1, Len(s) - Len(suf)))
    ELSE NoStr

\* acc * 10 + d in u32, ParseErr on overflow.
MulAdd(acc, d) ==
    LET lo == acc[2] * 10 + d
        hi == acc[1] * 10 + (lo \div Half)
    IN IF hi >= Half THEN ParseErr ELSE Parsed(U32(hi, lo % Half))

RECURSIVE ParseDigits(_, _, _)
ParseDigits(s, i, acc) ==
    IF i > Len(s) THEN Parsed(acc)
    ELSE IF ~IsDigit(s[i]) THEN ParseErr
    ELSE LET next == MulAdd(acc, DigitVal(s[i]))
         IN IF next.ok THEN ParseDigits(s, i + 1, next.v) ELSE ParseErr

\* str::parse::<u32>: an optional "+", then one or more decimal digits whose value
\* fits 32 bits.
parse_u32(s) ==
    LET body == IF Len(s) > 0 /\ s[1] = "+" THEN SubSeq(s, 2, Len(s)) ELSE s
    IN IF Len(body) = 0 THEN ParseErr ELSE ParseDigits(body, 1, U32(0, 0))

\* tile.rs 26-30: y from the filename.
parse_filename(filename) ==
    LET stem == strip_suffix(filename, PngSuffix)
    IN IF stem.ok THEN parse_u32(stem.s) ELSE ParseErr

\* tile.rs 26-38: the outcomes of get_tile's validation for the path (z, x,
\* filename): "InvalidCoordinates", "accepted" (get_tile goes on to the caches)
\* or "panic".
validate(z, x, filename) ==
    LET y == parse_filename(filename)
    IN IF ~y.ok THEN {"InvalidCoordinates"}
       ELSE { IF m.kind = "panic" THEN "panic"
              ELSE IF ~Lt(x, m.v) \/ ~Lt(y.v, m.v) THEN "InvalidCoordinates"
              ELSE "accepted" : m \in max_coord(z) }

\* Paths under check: zoom levels around the boundaries of the claim and of the
\* shift, coordinates around 2^3, 2^8, 2^19, 2^31 and 2^32, and file names.
Zooms == {0, 3, 8, 19, 31, 32, 35, 40, 255}
Coords == {U32(0, 0), U32(0, 1), U32(0, 7), U32(0, 8), U32(0, 9), U32(0, 255),
           U32(0, 256), U32(7, 65535), U32(8, 0), U32(32767, 65535), U32(32768, 0),
           U32(65535, 65535)}
Filenames == {
    <<"0", ".", "p", "n", "g">>,
    <<"7", ".", "p", "n", "g">>,
    <<"8", ".", "p", "n", "g">>,
    <<"9", ".", "p", "n", "g">>,
    <<"0", "0", "7", ".", "p", "n", "g">>,
    <<"+", "5", ".", "p", "n", "g">>,
    <<"-", "1", ".", "p", "n", "g">>,
    <<"+", ".", "p", "n", "g">>,
    <<".", "p", "n", "g">>,
    <<"a", ".", "p", "n", "g">>,
    <<"5", "4", "6", "1">>,
    <<"5", "4", "6", "1", ".", "j", "p", "g">>,
    <<"5", "4", "6", "1", ".", "p", "n", "g">>,
    <<"5", "2", "4", "2", "8", "7", ".", "p", "n", "g">>,
    <<"5", "2", "4", "2", "8", "8", ".", "p", "n", "g">>,
    <<"4", "2", "9", "4", "9", "6", "7", "2", "9", "5", ".", "p", "n", "g">>,
    <<"4", "2", "9", "4", "9", "6", "7", "2", "9", "6", ".", "p", "n", "g">> }

\* The server is idle: no request in the pipeline, the caches of k empty.
PureInit ==
    /\ InitTasks
    /\ png = NoIno
    /\ ino = [i \in Inodes |-> <<>>]
    /\ sidecar = NoETag
    /\ clean = TRUE

pipelineVars == <<pc, coVars, mem, diskVars, fileVars, reqVars, clean, histVars,
                  pathVars>>

\* tile.rs 20-24: a request for the path /z/x/filename reaches get_tile.
CallGetTile(z, x, filename) ==
    /\ call = NoCall
    /\ call' = [kind |-> "get_tile", z |-> z, x |-> x, filename |-> filename,
                out |-> "none"]
    /\ UNCHANGED pipelineVars

\* tile.rs 26-38: the validation runs; a rejection returns before any cache,
\* registry or upstream operation.
Validate ==
    /\ call.kind = "get_tile" /\ call.out = "none"
    /\ \E o \in validate(call.z, call.x, call.filename) :
        call' = [call EXCEPT !.out = o]
    /\ UNCHANGED pipelineVars

CoordNext ==
    \/ \E z \in Zooms, x \in Coords, filename \in Filenames : CallGetTile(z, x, filename)
    \/ Validate

CoordSpec == PureInit /\ [][CoordNext]_vars

\* x >= 2^z for a 32-bit x and the mathematical power 2^z (2^32 and above exceed
\* every u32).
GeqPow2(x, z) == z < 32 /\ ~Lt(x, Shl1(z))

\* C13 (as stated): get_tile returns InvalidCoordinates exactly when x >= 2^z or
\* y >= 2^z (the mathematical power) or the filename is not "<y>.png", for every
\* z of the 8-bit type and every 32-bit x and y.
C13_RejectsExactlyOutOfRange ==
    (call.kind = "get_tile" /\ call.out # "none") =>
        LET y == parse_filename(call.filename)
        IN (call.out = "InvalidCoordinates") <=>
               (~y.ok \/ GeqPow2(call.x, call.z) \/ GeqPow2(y.v, call.z))

\* -------------------------------------------- get_tile: the response

\* An If-None-Match header of a request: none, a value of visible ASCII text, or
\* a value HeaderValue::to_str refuses.
NoHeader == [kind |-> "absent"]
Text(s) == [kind |-> "text", s |-> s]
Opaque == [kind |-> "opaque"]
Headers == {NoHeader, Opaque} \cup {Text(s) : s \in ETags \cup {EmptyETag, "v3"}}

\* tile.rs 41-43: headers.get(IF_NONE_MATCH).and_then(|v| v.to_str().ok()).
client_etag(h) == IF h.kind = "text" THEN h.s ELSE NoETag

\* Tiles the caches can hold: any payload, with an ETag, an empty one, or none.
TileBodies == Bodies \cup {<<>>}
TileETags == OptETags \cup {EmptyETag}

\* A tile (data, etag) is served to a request carrying the header h.
CallMakeResponse(data, etag, h) ==
    /\ call = NoCall
    /\ call' = [kind |-> "make_response", data |-> data, etag |-> etag, header |-> h,
                out |-> <<>>]
    /\ UNCHANGED pipelineVars

\* tile.rs 48, 56, 62: the response is built.
Respond ==
    /\ call.kind = "make_response" /\ call.out = <<>>
    /\ call' = [call EXCEPT !.out =
                   <<make_response(call.data, call.etag, client_etag(call.header))>>]
    /\ UNCHANGED pipelineVars

RespNext ==
    \/ \E data \in TileBodies, etag \in TileETags, h \in Headers :
          CallMakeResponse(data, etag, h)
    \/ Respond

RespSpec == PureInit /\ [][RespNext]_vars

\* C14: the response is 304 with an empty body exactly when the tile has an ETag
\* and the request's If-None-Match value equals it; otherwise it is 200 with the
\* tile's bytes, Content-Type image/png, and an ETag header iff the tile has an
\* ETag (carrying it).
C14_NotModifiedIffETagsMatch ==
    (call.kind = "make_response" /\ call.out # <<>>) =>
        LET resp == call.out[1]
            match == /\ call.etag # NoETag
                     /\ call.header.kind = "text"
                     /\ call.header.s = call.etag
        IN IF match
           THEN resp.status = 304 /\ resp.body = <<>>
           ELSE /\ resp.status = 200
                /\ resp.body = call.data
                /\ resp.content_type = "image/png"
                /\ resp.etag = call.etag

\* C14 witness: a tile with ETag "v1" was answered 304 to a request carrying
\* If-None-Match: v1.
C14_Witness ==
    /\ call.kind = "make_response" /\ call.out # <<>>
    /\ call.etag = "v1" /\ call.header = Text("v1") /\ call.data = B1
    /\ call.out[1].status = 304

\* ------------------------------------------ errors and their status codes

\* What the upstream exchange of one fetch can come to (osm.rs 56-67): send()
\* fails (transport, timeout), or a response with a status code arrives; the body
\* of a 200 can still fail to arrive.
Transport == [kind |-> "transport"]
Status(code, body_ok) == [kind |-> "status", code |-> code, body_ok |-> body_ok]
StatusCodes == 100..999
Replies == {Transport} \cup {Status(c, b) : c \in StatusCodes, b \in BOOLEAN}

\* osm.rs 56-77: the result of fetch for an upstream reply.
fetch(reply) ==
    IF reply.kind = "transport" THEN Err(Upstream)
    ELSE IF reply.code = 200
         THEN (IF reply.body_ok THEN Data(B1, "v1") ELSE Err(Upstream))
    ELSE IF reply.code = 304 THEN NotModified
    ELSE IF reply.code = 404 THEN Err(NotFound)
    ELSE Err(UpstreamStatus(reply.code))

\* AppError values handed to into_response: those of the pipeline and
\* UpstreamStatus with any u16.
Codes16 == {0, 99, 100, 200, 500, 999, 1000, 65535}
AppErrors == {NotFound, InvalidCoordinates, Upstream, Io}
                 \cup {UpstreamStatus(c) : c \in Codes16}

\* osm.rs 47: a fetch whose upstream exchange comes to `reply`.
CallFetch(reply) ==
    /\ call = NoCall
    /\ call' = [kind |-> "fetch", reply |-> reply, out |-> <<>>, status |-> <<>>]
    /\ UNCHANGED pipelineVars

\* osm.rs 56-77: fetch returns.
FetchMaps ==
    /\ call.kind = "fetch" /\ call.out = <<>>
    /\ call' = [call EXCEPT !.out = <<fetch(call.reply)>>]
    /\ UNCHANGED pipelineVars

\* tile.rs 60 and error.rs 23-37: get_tile returns the error of the fetch and
\* axum turns it into the response.
ErrorAnswered ==
    /\ call.kind = "fetch" /\ call.out # <<>> /\ call.status = <<>>
    /\ call.out[1].kind = "Err"
    /\ call' = [call EXCEPT !.status = <<into_response(call.out[1].err)>>]
    /\ UNCHANGED pipelineVars

\* error.rs 23-37: a handler returns the error e.
CallIntoResponse(e) ==
    /\ call = NoCall
    /\ call' = [kind |-> "error", err |-> e, status |-> <<into_response(e)>>]
    /\ UNCHANGED pipelineVars

ErrNext ==
    \/ \E reply \in Replies : CallFetch(reply)
    \/ FetchMaps
    \/ ErrorAnswered
    \/ \E e \in AppErrors : CallIntoResponse(e)

ErrSpec == PureInit /\ [][ErrNext]_vars

\* C15: an upstream status other than 200, 304 and 404 yields UpstreamStatus(code)
\* and is answered with that code (every status a response carries is a valid
\* one); 404 yields NotFound and 404; a transport failure yields 502;
\* UpstreamStatus(code) with a code that is no valid status yields 502;
\* InvalidCoordinates yields 400.
C15_ErrorStatusMapping ==
    /\ (call.kind = "fetch" /\ call.out # <<>>) =>
        LET reply == call.reply
            result == call.out[1]
        IN /\ reply.kind = "transport" => result = Err(Upstream)
           /\ (reply.kind = "status" /\ reply.code = 404) => result = Err(NotFound)
           /\ (reply.kind = "status" /\ reply.code \notin {200, 304, 404}) =>
                  result = Err(UpstreamStatus(reply.code))
           /\ call.status # <<>> =>
                  /\ reply.kind = "transport" => call.status[1] = 502
                  /\ (reply.kind = "status" /\ reply.code # 200) =>
                         call.status[1] = reply.code
    /\ call.kind = "error" =>
        /\ call.err = InvalidCoordinates => call.status[1] = 400
        /\ call.err = NotFound => call.status[1] = 404
        /\ call.err = Upstream => call.status[1] = 502
        /\ call.err.type = "UpstreamStatus" =>
               call.status[1] = IF call.err.code \in 100..999 THEN call.err.code ELSE 502

\* C15 witness: upstream answered 503 and the client was answered 503.
C15_Witness ==
    /\ call.kind = "fetch" /\ call.reply = Status(503, TRUE)
    /\ call.out = <<Err(UpstreamStatus(503))>>
    /\ call.status = <<503>>

\* -------------------------------------------- claims on the acquirer

\* C16: an acquirer whose first fetch returned an error returns that error as
\* soon as its guard is gone: it has made one fetch, no store call and no memory
\* insert, the registry does not hold its entry, and when no other request has
\* run the memory entry and the files of k are as before the request (absent:
\* a lone request reaches the fetch only from empty caches).
C16_FetchErrorPropagatesAtOnce ==
    \A r \in Req :
        via[r] = "err" =>
            /\ pc[r] = "done"
            /\ res[r].kind = "Err" /\ ret[r] = res[r]
            /\ Response(r).status = into_response(res[r].err)
            /\ fetches[r] = 1
            /\ st[r] = NoCall /\ stres[r] = "none" /\ fd[r] = NoIno
            /\ ins[r] = NoTile
            /\ in_flight # r
            /\ (\A q \in Req \ {r} : pc[q] = "idle") =>
                   /\ mem = NoTile
                   /\ png = NoIno /\ tmp = NoIno /\ sidecar = NoETag

\* C16 witness: a lone request was answered 500 after upstream answered its
\* fetch with status 500.
C16_Witness ==
    \E r \in Req :
        /\ via[r] = "err" /\ pc[r] = "done"
        /\ res[r] = Err(UpstreamStatus(500)) /\ Response(r).status = 500
        /\ \A q \in Req \ {r} : pc[q] = "idle"

\* C17: after a first fetch that returned NotModified, an acquirer that finds the
\* payload on disk inserts that tile into memory and returns it with no further
\* fetch; one that does not makes exactly one more fetch, without a validator:
\* its Data is passed to store, inserted into memory and returned, a second
\* NotModified is returned as NotFound (404) and its error is returned as it is.
\* No request makes a third fetch.
C17_NotModifiedHandling ==
    \A r \in Req :
        /\ fetches[r] <= 2
        /\ pc[r] = "fb_fetching" => fetches[r] = 2 /\ sentFb[r] = NoETag
        /\ via[r] = "nm_disk" =>
            /\ pc[r] \in {"nm_promote", "done"}
            /\ fetches[r] = 1 /\ res[r] = NotModified
            /\ ret[r].kind = "Ok" /\ st[r] = NoCall
            /\ pc[r] = "done" => ins[r] = Tile(ret[r].data, ret[r].etag)
        /\ via[r] = "fb_data" =>
            /\ InStore(r) \/ pc[r] = "done"
            /\ fetches[r] = 2 /\ sentFb[r] = NoETag
            /\ res[r].kind = "Data"
            /\ st[r] = [data |-> res[r].data, etag |-> res[r].etag]
            /\ pc[r] = "done" =>
                /\ ret[r] = Ok(res[r])
                /\ ins[r] = Tile(res[r].data, res[r].etag)
        /\ via[r] = "fb_nm" =>
            /\ pc[r] = "done" /\ fetches[r] = 2
            /\ res[r] = NotModified
            /\ ret[r] = Err(NotFound) /\ Response(r).status = 404
            /\ st[r] = NoCall /\ ins[r] = NoTile
        /\ via[r] = "fb_err" =>
            /\ pc[r] = "done" /\ fetches[r] = 2
            /\ res[r].kind = "Err" /\ ret[r] = res[r]
            /\ st[r] = NoCall /\ ins[r] = NoTile

\* C17 witness: one request got NotModified twice and was answered 404; the
\* other got NotModified, then Data from its fallback fetch, and was answered 200.
C17_Witness ==
    \E r, q \in Req :
        /\ pc[r] = "done" /\ via[r] = "fb_nm" /\ Response(r).status = 404
        /\ pc[q] = "done" /\ via[q] = "fb_data" /\ Response(q).status = 200

\* r is inside guard.complete() or the guard's Drop.
Releasing(r) == pc[r] \in {"c_remove", "c_notify", "d_remove", "d_notify"}

\* C18: the acquirer releases its guard after its first fetch has returned and
\* before it handles the result: until complete() and Drop have run it has made
\* no store call, no disk read-back, no second fetch and no memory insert, and
\* once it handles the result (whatever it is) the registry no longer holds its
\* entry.
C18_GuardReleasedBeforeProcessing ==
    \A r \in Req :
        /\ (acq[r] = 1 /\ (pc[r] \in {"get_etag", "fetching"} \/ Releasing(r))) =>
            /\ st[r] = NoCall /\ ins[r] = NoTile
            /\ via[r] = "none" /\ fetches[r] <= 1
        /\ Releasing(r) => res[r] # NoRes /\ fetches[r] = 1
        /\ (acq[r] = 1 /\ ~(pc[r] \in {"get_etag", "fetching"} \/ Releasing(r))) =>
            /\ res[r] # NoRes
            /\ in_flight # r

\* C18 witness: upstream answered the acquirer r with Data; its waiter q was
\* woken, found neither cache holding k and is back at try_acquire while r is
\* still in its store call, nothing yet renamed into place.
C18_Witness ==
    \E r, q \in Req :
        /\ via[r] = "data" /\ InStore(r) /\ pc[r] # "st_ret"
        /\ sig[q] = r /\ pc[q] = "try_acquire" /\ tries[q] = 1
        /\ mem = NoTile /\ png = NoIno

\* C19 (as stated): every upstream fetch in progress (first or fallback) belongs
\* to a request that holds its coalescing guard, not yet released.
C19_FetchOnlyUnderGuard ==
    \A r \in Req : Fetching(r) => HoldsGuard(r)

\* C20: a request gets Acquired from try_acquire at most once and issues at most
\* two fetches, and only as the acquirer; once it has acquired it never returns
\* to try_acquire or to waiting and it can always take its next step until it has
\* returned.  So the NumReq requests make at most 2 * NumReq fetches, and a
\* request that has returned did so from a cache hit (never having acquired) or
\* from the Acquired arm.
C20_BoundedAcquireAndFetch ==
    /\ TotalFetches <= 2 * NumReq
    /\ \A r \in Req :
        /\ acq[r] <= 1 /\ fetches[r] <= 2
        /\ fetches[r] > 0 => acq[r] = 1
        /\ acq[r] = 1 =>
            /\ pc[r] \notin {"try_acquire", "wait_create", "parked", "w_mem", "w_disk",
                             "w_promote"}
            /\ Finished(r) \/ ENABLED Step(r)
        /\ pc[r] = "done" =>
            IF acq[r] = 0
            THEN via[r] \in {"mem", "disk", "w_mem", "w_disk"}
            ELSE via[r] \in {"data", "err", "nm_disk", "fb_data", "fb_nm", "fb_err"}

\* C20 witness: both requests made two fetches; one of them first waited, woke,
\* missed both caches and acquired on its second try_acquire.
C20_Witness ==
    /\ TotalFetches = 2 * NumReq
    /\ \A r \in Req : pc[r] = "done"
    /\ \E q \in Req : tries[q] = 2 /\ acq[q] = 1 /\ fetches[q] = 2

\* ------------------------------------------ claims on concurrent stores

\* C21 (as stated, for store calls that each carry an ETag): once every store
\* call for k has finished (every task has called store and all calls returned
\* Ok), whatever get(k) returns is a pair (b, e) that was passed together to one
\* store call.
C21_PayloadAndSidecarFromOneStore ==
    (\A p \in Req : pc[p] = "stored" /\ stres[p] = "ok" /\ st[p].etag # NoETag) =>
        \A t \in DiskGet :
            t # NoTile => \E q \in Req : t = Tile(st[q].data, st[q].etag)

====
